---- MODULE Spec2Model ----
(***************************************************************************)
(* Model of the Unity module registry controller (unity_controller.py):    *)
(* the UnityController query and refresh operations, the registry manager  *)
(* they delegate to, and the module-level get_unity_controller accessor.   *)
(***************************************************************************)
EXTENDS Naturals, Sequences, FiniteSets

VARIABLES
    tree,        \* the module directories currently on disk (environment)
    now,         \* the wall clock, as a scan counter
    persisted,   \* the registry file on disk
    registry,    \* UnityController._registry and the manager's in-memory state
    call,        \* the last controller operation invoked, with its argument
    result,      \* the dict that operation returned
    locals,      \* the local variables of the last refresh_registry call
    instance,    \* the module-level _controller_instance (0: None)
    objects,     \* every UnityController constructed by get_unity_controller
    returned,    \* what each get_unity_controller call was given and returned
    pc,          \* where each concurrent caller stands inside refresh_registry
    frame        \* each concurrent caller's refresh_registry locals

vars == <<tree, now, persisted, registry, call, result, locals,
          instance, objects, returned, pc, frame>>

\* the state of the module-level accessor, and of the concurrent callers
accessorVars == <<instance, objects, returned>>
callerVars == <<pc, frame>>

----------------------------------------------------------------------------
(* Bounds *)

\* the clock stops here: at most MaxClock - 1 rescans in one behaviour
MaxClock == 3
\* longest list of types handed to list_modules
MaxTypes == 2
\* callers that may be inside the controller at once
MaxCallers == 2
\* get_unity_controller calls in one behaviour
MaxCalls == 3

----------------------------------------------------------------------------
(* Values *)

\* UnityController.VALID_TYPES
VALID_TYPES == {"core", "manager", "shared", "feature", "level", "thirdparty", "extension"}

\* Every string of the model in Python's str order (upper case sorts first).
StrOrder ==
    << "Audio", "CoreUtils", "Ghost", "Net",
       "bogus", "core", "extension", "feature", "level", "manager", "shared",
       "thirdparty", "weird" >>

\* Python's sorted() on a set of strings
sorted(S) == SelectSeq(StrOrder, LAMBDA s : s \in S)

\* set(seq)
set(seq) == {seq[i] : i \in 1..Len(seq)}

\* The category directories in the order the scanner walks them.
CategoryOrder == << "core", "manager", "shared", "feature", "level", "thirdparty", "extension" >>

\* The module directories that may exist on disk. Two of them share the
\* name Audio under different category directories.
DirPool ==
    { [name |-> "CoreUtils", type |-> "core",    has_yaml |-> FALSE, dependencies |-> << >>],
      [name |-> "Audio",     type |-> "manager", has_yaml |-> TRUE,  dependencies |-> <<"CoreUtils">>],
      [name |-> "Audio",     type |-> "feature", has_yaml |-> TRUE,  dependencies |-> <<"CoreUtils", "Ghost">>],
      [name |-> "Net",       type |-> "feature", has_yaml |-> TRUE,  dependencies |-> <<"Audio">>] }

\* Names a caller may ask about; Ghost is never a module on disk
Names == {"Audio", "CoreUtils", "Ghost"}

\* Type strings a caller may pass; bogus is not a valid type
TypeInputs == {"core", "manager", "bogus"}

TypeLists == UNION {[1..n -> TypeInputs] : n \in 0..MaxTypes}

\* types: list[str] | None
None == [some |-> FALSE]
Some(v) == [some |-> TRUE, val |-> v]
TypeArgs == {None} \cup {Some(l) : l \in TypeLists}

\* Python truthiness of `types`: None and the empty list are both falsy
Truthy(types) == types.some /\ Len(types.val) > 0

----------------------------------------------------------------------------
(* The registry manager (managers.unity_module_registry_manager), as the   *)
(* specification describes the Tree Scanner, Registry Store and Query Layer *)

\* The child directories of one category directory, in listing order
CategoryChildren(t, cat) ==
    LET ns == sorted({d.name : d \in {x \in t : x.type = cat}})
    IN  [i \in 1..Len(ns) |-> CHOOSE d \in t : d.type = cat /\ d.name = ns[i]]

RECURSIVE ScanFrom(_, _)
ScanFrom(t, i) ==
    IF i > Len(CategoryOrder) THEN << >>
    ELSE CategoryChildren(t, CategoryOrder[i]) \o ScanFrom(t, i + 1)

\* Tree Scanner: every module directory on disk, category by category
ScanTree(t) == ScanFrom(t, 1)

\* Registry Store replace(): the catalog is keyed by name, last scanned wins
RECURSIVE replace(_)
replace(list) ==
    IF list = << >> THEN << >>
    ELSE LET h == Head(list)
             r == Tail(list)
         IN  IF \E j \in 1..Len(r) : r[j].name = h.name
             THEN replace(r)
             ELSE <<h>> \o replace(r)

\* A registry manager that has not been created yet (self._registry is None)
NoRegistry == [created |-> FALSE, modules |-> << >>, last_scan |-> 0]

\* The registry file: absent, or the catalog and last_scan of a save
NoFile == [exists |-> FALSE, modules |-> << >>, last_scan |-> 0]

\* Registry Store load(): the persisted catalog, or an empty one
load(file) ==
    IF file.exists
    THEN [created |-> TRUE, modules |-> file.modules, last_scan |-> file.last_scan]
    ELSE [created |-> TRUE, modules |-> << >>, last_scan |-> 0]

\* Registry Store persist(): what save_registry writes
save_registry(reg) == [exists |-> TRUE, modules |-> reg.modules, last_scan |-> reg.last_scan]

\* registry.scan_modules(): scans, swaps the whole catalog, stamps last_scan
scan_modules(reg, t, time) ==
    [created |-> TRUE, modules |-> replace(ScanTree(t)), last_scan |-> time]

\* registry.get_modules(module_type=t): filter(type), in catalog order
get_modules(reg, t) == SelectSeq(reg.modules, LAMBDA m : m.type = t)

\* registry.get_module(name): the module of that name, or None
registry_get_module(reg, name) ==
    LET hits == SelectSeq(reg.modules, LAMBDA m : m.name = name)
    IN  IF hits = << >> THEN None ELSE Some(hits[1])

\* registry.get_module_dependencies(name): the declared list, verbatim
registry_get_module_dependencies(reg, name) ==
    LET m == registry_get_module(reg, name)
    IN  IF m.some THEN m.val.dependencies ELSE << >>

\* registry.find_dependents(name): exact-entry match on every dependencies list
registry_find_dependents(reg, name) ==
    SelectSeq(reg.modules, LAMBDA m : name \in set(m.dependencies))

\* registry.get_scan_summary(): totals, counts by type, last scan
get_scan_summary(reg) ==
    [total_modules |-> Len(reg.modules),
     by_type |-> [t \in VALID_TYPES |-> Len(get_modules(reg, t))],
     last_scan |-> reg.last_scan]

----------------------------------------------------------------------------
(* UnityController *)

\* mutant: the None test is lost and a manager is built on every call
creates_manager_always(reg) == TRUE

\* UnityController._get_registry, `if self._registry is None`
creates_manager(reg) == ~reg.created

\* UnityController._get_registry: create the manager on first use, then reuse it
_get_registry(reg, file) == IF creates_manager(reg) THEN load(file) ELSE reg

\* UnityController._module_to_dict
_module_to_dict(m) ==
    [name |-> m.name, type |-> m.type, has_yaml |-> m.has_yaml,
     dependencies |-> m.dependencies]

to_dicts(ms) == [i \in 1..Len(ms) |-> _module_to_dict(ms[i])]

\* mutant: only the first requested type is validated
invalid_types_first_only(types) == {types.val[1]} \ VALID_TYPES

\* set(types) - self.VALID_TYPES
invalid_types(types) == set(types.val) \ VALID_TYPES

RECURSIVE extend_all(_, _)
\* for t in types: modules.extend(registry.get_modules(module_type=t))
extend_all(reg, ts) ==
    IF ts = << >> THEN << >>
    ELSE get_modules(reg, Head(ts)) \o extend_all(reg, Tail(ts))

\* mutant: the loop stops after the first requested type
listed_modules_first_only(reg, types) ==
    IF Truthy(types) THEN get_modules(reg, types.val[1]) ELSE reg.modules

\* the modules list_modules collects once the types are validated
listed_modules(reg, types) ==
    IF Truthy(types) THEN extend_all(reg, types.val) ELSE reg.modules

\* UnityController.list_modules: the returned dict
list_modules_result(reg, types) ==
    IF Truthy(types) /\ invalid_types(types) # {}
    THEN [success |-> FALSE,
          error |-> [kind |-> "Invalid module types",
                     invalid |-> sorted(invalid_types(types)),
                     valid |-> sorted(VALID_TYPES)]]
    ELSE LET modules == listed_modules(reg, types)
         IN  [success |-> TRUE, count |-> Len(modules), modules |-> to_dicts(modules)]

\* the dict both lookups return when registry.get_module gives None
not_found(name) ==
    [success |-> FALSE, error |-> [kind |-> "not found in registry", name |-> name]]

\* mutant: the None test is lost, so _module_to_dict(None) raises and the
\* generic handler answers
get_module_result_unchecked(reg, name) ==
    LET module == registry_get_module(reg, name)
    IN  IF ~module.some
        THEN [success |-> FALSE, error |-> [kind |-> "Unexpected error", name |-> name]]
        ELSE [success |-> TRUE, module |-> _module_to_dict(module.val)]

\* UnityController.get_module: the returned dict
get_module_result(reg, name) ==
    LET module == registry_get_module(reg, name)
    IN  IF ~module.some THEN not_found(name)
        ELSE [success |-> TRUE, module |-> _module_to_dict(module.val)]

\* UnityController.get_module_dependencies: the returned dict
get_module_dependencies_result(reg, name) ==
    LET module == registry_get_module(reg, name)
    IN  IF ~module.some THEN not_found(name)
        ELSE LET dependencies == registry_get_module_dependencies(reg, name)
             IN  [success |-> TRUE, module |-> name,
                  dependencies |-> dependencies, count |-> Len(dependencies)]

\* mutant: find_dependents first checks that the module exists
find_dependents_result_checked(reg, name) ==
    LET dependents == registry_find_dependents(reg, name)
    IN  IF ~registry_get_module(reg, name).some THEN not_found(name)
        ELSE [success |-> TRUE, module |-> name,
              dependents |-> to_dicts(dependents), count |-> Len(dependents)]

\* UnityController.find_dependents: the returned dict
find_dependents_result(reg, name) ==
    LET dependents == registry_find_dependents(reg, name)
    IN  [success |-> TRUE, module |-> name,
         dependents |-> to_dicts(dependents), count |-> Len(dependents)]

\* UnityController.get_registry_status: the returned dict
get_registry_status_result(reg) ==
    LET summary == get_scan_summary(reg)
    IN  [success |-> TRUE, total_modules |-> summary.total_modules,
         by_type |-> summary.by_type, last_scan |-> summary.last_scan]

\* {m.name for m in modules}
module_names(ms) == {ms[i].name : i \in 1..Len(ms)}

\* mutant: every scanned name counts as added
added_all(old, new) == new
\* mutant: | written for &
unchanged_union(old, new) == old \cup new

\* refresh_registry, "Calculate diff"
added(old, new) == new \ old
removed(old, new) == old \ new
unchanged(old, new) == old \cap new

\* the local variables of refresh_registry once the diff is computed
refresh_locals(reg, t) ==
    LET old_module_names == module_names(reg.modules)
        new_modules == ScanTree(t)
        new_module_names == module_names(new_modules)
    IN  [old_module_names |-> old_module_names,
         new_modules |-> new_modules,
         new_module_names |-> new_module_names,
         added |-> added(old_module_names, new_module_names),
         removed |-> removed(old_module_names, new_module_names),
         unchanged |-> unchanged(old_module_names, new_module_names)]

NoLocals == refresh_locals(NoRegistry, {})

\* refresh_registry: the dict returned after save_registry succeeded
refresh_success(l, reg) ==
    [success |-> TRUE,
     summary |-> [added |-> Cardinality(l.added),
                  removed |-> Cardinality(l.removed),
                  unchanged |-> Cardinality(l.unchanged),
                  total |-> Len(l.new_modules)],
     added_modules |-> sorted(l.added),
     removed_modules |-> sorted(l.removed),
     last_scan |-> reg.last_scan]

\* mutant: the handler logs the error and still reports success
refresh_failure_swallowed == [success |-> TRUE, error |-> [kind |-> "UnityModuleRegistryError"]]

\* refresh_registry: the dict returned when save_registry raised
refresh_failure == [success |-> FALSE, error |-> [kind |-> "UnityModuleRegistryError"]]

----------------------------------------------------------------------------
(* The operations of one controller, each run to completion *)

\* what a query leaves alone: the disk tree, the clock, the registry file
\* and the locals of the last refresh
QueryFrame == UNCHANGED <<tree, now, persisted, locals, accessorVars, callerVars>>

\* No request is being served: the last result has been handed to the caller.
Idle == [op |-> "idle", arg |-> "none"]
NoResult == [success |-> TRUE]

list_modules(types) ==
    LET reg == _get_registry(registry, persisted)
    IN  /\ call.op = "idle"
        /\ registry' = reg
        /\ call' = [op |-> "list_modules", arg |-> types]
        /\ result' = list_modules_result(reg, types)
        /\ QueryFrame

get_module(name) ==
    LET reg == _get_registry(registry, persisted)
    IN  /\ call.op = "idle"
        /\ registry' = reg
        /\ call' = [op |-> "get_module", arg |-> name]
        /\ result' = get_module_result(reg, name)
        /\ QueryFrame

get_module_dependencies(name) ==
    LET reg == _get_registry(registry, persisted)
    IN  /\ call.op = "idle"
        /\ registry' = reg
        /\ call' = [op |-> "get_module_dependencies", arg |-> name]
        /\ result' = get_module_dependencies_result(reg, name)
        /\ QueryFrame

find_dependents(name) ==
    LET reg == _get_registry(registry, persisted)
    IN  /\ call.op = "idle"
        /\ registry' = reg
        /\ call' = [op |-> "find_dependents", arg |-> name]
        /\ result' = find_dependents_result(reg, name)
        /\ QueryFrame

get_registry_status ==
    LET reg == _get_registry(registry, persisted)
    IN  /\ call.op = "idle"
        /\ registry' = reg
        /\ call' = [op |-> "get_registry_status", arg |-> "none"]
        /\ result' = get_registry_status_result(reg)
        /\ QueryFrame

\* refresh_registry; save_raises: whether save_registry raises UnityModuleRegistryError
refresh_registry(save_raises) ==
    /\ call.op = "idle"
    /\ now < MaxClock
    /\ LET reg == _get_registry(registry, persisted)
           l == refresh_locals(reg, tree)
           scanned == scan_modules(reg, tree, now + 1)
       IN  /\ now' = now + 1
           /\ locals' = l
           /\ registry' = scanned
           /\ persisted' = IF save_raises THEN persisted ELSE save_registry(scanned)
           /\ result' = IF save_raises THEN refresh_failure ELSE refresh_success(l, scanned)
           /\ call' = [op |-> "refresh_registry", arg |-> save_raises]
           /\ UNCHANGED <<tree, accessorVars, callerVars>>

\* The environment creates or deletes one module directory.
ChangeTree(d) ==
    /\ call.op = "idle"
    /\ tree' = IF d \in tree THEN tree \ {d} ELSE tree \cup {d}
    /\ UNCHANGED <<now, persisted, registry, call, result, locals, accessorVars, callerVars>>

\* The caller takes the returned dict (unity_cli._print_result prints it);
\* the next request can then be served.
_print_result ==
    /\ call.op # "idle"
    /\ call' = Idle
    /\ result' = NoResult
    /\ UNCHANGED <<tree, now, persisted, registry, locals, accessorVars, callerVars>>

\* The callers that may reach one controller at the same time
Callers == 1..MaxCallers

\* the frame of a caller that is not inside refresh_registry
NoFrame == [old_module_names |-> {}, new_modules |-> << >>]

\* Registry files an earlier run of the program can have left behind
EarlierFiles == {NoFile, save_registry(scan_modules(NoRegistry, DirPool, 1))}

Init ==
    /\ tree \in SUBSET DirPool
    /\ now = 1
    /\ persisted \in EarlierFiles
    /\ registry = NoRegistry
    /\ call = Idle
    /\ result = NoResult
    /\ locals = NoLocals
    /\ instance = 0
    /\ objects = << >>
    /\ returned = << >>
    /\ pc = [c \in Callers |-> "idle"]
    /\ frame = [c \in Callers |-> NoFrame]

Next ==
    \/ \E types \in TypeArgs : list_modules(types)
    \/ \E name \in Names : get_module(name)
    \/ \E name \in Names : get_module_dependencies(name)
    \/ \E name \in Names : find_dependents(name)
    \/ get_registry_status
    \/ \E save_raises \in BOOLEAN : refresh_registry(save_raises)
    \/ \E d \in DirPool : ChangeTree(d)
    \/ _print_result

Spec == Init /\ [][Next]_vars

----------------------------------------------------------------------------
(* Properties of one controller *)

QueryOps == {"list_modules", "get_module", "get_module_dependencies",
             "find_dependents", "get_registry_status"}

\* the names of the catalog the controller holds
CatalogNames == module_names(registry.modules)

\* C1: the added, removed and unchanged sets of every refresh_registry call
\* are pairwise disjoint, their union is before \cup after, and their sizes
\* add up to the size of that union.
C1_DiffPartition ==
    LET both == locals.old_module_names \cup locals.new_module_names
    IN  /\ locals.added \cap locals.removed = {}
        /\ locals.added \cap locals.unchanged = {}
        /\ locals.removed \cap locals.unchanged = {}
        /\ locals.added \cup locals.removed \cup locals.unchanged = both
        /\ Cardinality(locals.added) + Cardinality(locals.removed)
             + Cardinality(locals.unchanged) = Cardinality(both)
        /\ \A n \in both :
             /\ n \in locals.added <=> (n \in locals.new_module_names /\ n \notin locals.old_module_names)
             /\ n \in locals.removed <=> (n \in locals.old_module_names /\ n \notin locals.new_module_names)
             /\ n \in locals.unchanged <=> (n \in locals.old_module_names /\ n \in locals.new_module_names)

\* a refresh whose diff has names of all three kinds
C1_Witness ==
    /\ call.op = "refresh_registry"
    /\ locals.added # {}
    /\ locals.removed # {}
    /\ locals.unchanged # {}

\* a lookup of a name the catalog does not hold has just returned
LookupMissed ==
    /\ call.op \in {"get_module", "get_module_dependencies"}
    /\ call.arg \notin CatalogNames

Offending(types) == {types[i] : i \in {j \in 1..Len(types) : types[j] \notin VALID_TYPES}}

\* C3: list_modules fails as soon as one requested type is outside the closed
\* set; the error names exactly the offending values, each once, and no
\* module is returned.
C3_InvalidTypeRejected ==
    (/\ call.op = "list_modules"
     /\ call.arg.some
     /\ Offending(call.arg.val) # {}) =>
        /\ ~result.success
        /\ result.error.kind = "Invalid module types"
        /\ set(result.error.invalid) = Offending(call.arg.val)
        /\ Len(result.error.invalid) = Cardinality(Offending(call.arg.val))
        /\ "modules" \notin DOMAIN result

\* a valid type requested together with an invalid one
C3_Witness ==
    /\ call.op = "list_modules"
    /\ call.arg.some
    /\ call.arg.val = <<"manager", "bogus">>
    /\ registry.modules # << >>
    /\ ~result.success

RECURSIVE ConcatFilters(_, _)
\* filter(type) of each requested type, in catalog order, one after the other
ConcatFilters(catalog, types) ==
    IF types = << >> THEN << >>
    ELSE SelectSeq(catalog, LAMBDA m : m.type = Head(types))
           \o ConcatFilters(catalog, Tail(types))

\* list_modules has just returned for a list of valid types
ValidTypesListed ==
    /\ call.op = "list_modules"
    /\ call.arg.some
    /\ Offending(call.arg.val) = {}

ReturnsConcatenation ==
    /\ result.success
    /\ result.modules = ConcatFilters(registry.modules, call.arg.val)
    /\ result.count = Len(ConcatFilters(registry.modules, call.arg.val))
    /\ \A i \in 1..Len(result.modules) : result.modules[i].type \in set(call.arg.val)

\* C4 as claimed: for every list of valid types, the empty list included,
\* list_modules returns the concatenation of the per-type filters.
C4_ConcatenationForEveryList == ValidTypesListed => ReturnsConcatenation

\* C4, amended: for every non-empty list of valid types list_modules returns
\* the concatenation of the per-type filters in request order; for the empty
\* list it returns the whole catalog, as it does when no types are given.
C4_ConcatenationForNonEmptyList ==
    /\ (ValidTypesListed /\ call.arg.val # << >>) => ReturnsConcatenation
    /\ (ValidTypesListed /\ call.arg.val = << >>) =>
          /\ result.success
          /\ result.modules = registry.modules
          /\ result.count = Len(registry.modules)
    /\ (ValidTypesListed /\ call.arg.val = <<"manager">>) =>
          result.modules = SelectSeq(registry.modules, LAMBDA m : m.type = "manager")

\* two types requested against catalog order, both with modules
C4_Witness ==
    /\ ValidTypesListed
    /\ call.arg.val = <<"manager", "core">>
    /\ result.success
    /\ result.count = 2

\* the last refresh of this run saved what it scanned
LastRefreshSucceeded ==
    /\ now > 1
    /\ persisted.exists
    /\ persisted.last_scan = now

\* C5: a refresh that follows a successful refresh of the same on-disk tree,
\* with any queries in between, reports nothing added, nothing removed and
\* every catalog name unchanged.
C5_RefreshIdempotent ==
    [][(/\ LastRefreshSucceeded
        /\ locals.new_modules = ScanTree(tree)
        /\ call'.op = "refresh_registry"
        /\ now' = now + 1)
       => /\ locals'.added = {}
          /\ locals'.removed = {}
          /\ locals'.unchanged = module_names(registry'.modules)
          /\ result'.success =>
                /\ result'.summary.added = 0
                /\ result'.summary.removed = 0
                /\ result'.summary.unchanged = Cardinality(module_names(registry'.modules))
                /\ result'.added_modules = << >>
                /\ result'.removed_modules = << >>]_vars

\* the second refresh of a run, over a non-empty tree, reporting no change
C5_Witness ==
    /\ call.op = "refresh_registry"
    /\ result.success
    /\ now = 3
    /\ locals.added = {}
    /\ locals.removed = {}
    /\ Cardinality(locals.unchanged) = 2

\* a catalog with one module per name, each of a known type
CatalogValid(ms) ==
    /\ \A i, j \in 1..Len(ms) : ms[i].name = ms[j].name => i = j
    /\ \A i \in 1..Len(ms) : ms[i].type \in VALID_TYPES

\* every query answers from the catalog: a result dict, never the generic
\* error of an exception
QueriesAnswer(reg) ==
    /\ \A types \in {None, Some(<<"manager">>)} : list_modules_result(reg, types).success
    /\ \A n \in Names :
         /\ get_module_result(reg, n).success <=> n \in module_names(reg.modules)
         /\ get_module_dependencies_result(reg, n).success <=> n \in module_names(reg.modules)
         /\ find_dependents_result(reg, n).success
    /\ get_registry_status_result(reg).total_modules = Len(reg.modules)

\* C6: when save_registry raises during refresh_registry the caller gets a
\* failure result, the registry file is left as it was, the in-memory catalog
\* is a complete valid catalog (the old one or the scanned one, never a mix)
\* that every query answers from, and a later refresh can still succeed.
C6_PersistFailureKeepsCatalog ==
    [][(call'.op = "refresh_registry" /\ call'.arg)
       => /\ ~result'.success
          /\ persisted' = persisted
          /\ registry'.created
          /\ CatalogValid(registry'.modules)
          /\ \/ registry'.modules = replace(ScanTree(tree))
             \/ registry'.modules = _get_registry(registry, persisted).modules
          /\ QueriesAnswer(registry')
          /\ now' < MaxClock =>
                refresh_success(refresh_locals(registry', tree'),
                                scan_modules(registry', tree', now' + 1)).success]_vars

\* a failed save that leaves the memory catalog ahead of the registry file
C6_Witness ==
    /\ call.op = "refresh_registry"
    /\ call.arg
    /\ ~result.success
    /\ registry.modules # << >>
    /\ registry.modules # persisted.modules

\* C7: queries are read-only. A query on a loaded registry, rejected or not,
\* leaves the catalog, last_scan and the registry file as they were; no query
\* ever writes the registry file; only refresh_registry changes any of them.
C7_QueriesReadOnly ==
    [][/\ call'.op \in QueryOps =>
            /\ persisted' = persisted
            /\ tree' = tree
            /\ registry.created => registry' = registry
       /\ (\/ persisted' # persisted
           \/ registry.created /\ registry' # registry)
            => call'.op = "refresh_registry"]_vars

\* a rejected list_modules call on a catalog that is ahead of the registry file
C7_Witness ==
    /\ call.op = "list_modules"
    /\ ~result.success
    /\ registry.modules # << >>
    /\ registry.modules # persisted.modules

\* the modules of a catalog whose dependencies list holds the string x
Dependents(ms, x) ==
    SelectSeq(ms, LAMBDA m : \E i \in 1..Len(m.dependencies) : m.dependencies[i] = x)

\* catalog `after` is catalog `before` with module m put in at some place
InsertedOne(before, after, m) ==
    /\ Len(after) = Len(before) + 1
    /\ \E i \in 1..Len(after) :
         /\ after[i] = m
         /\ before = SubSeq(after, 1, i - 1) \o SubSeq(after, i + 1, Len(after))

\* C8: find_dependents(X) always succeeds, whether or not X is a module: it
\* returns exactly the modules whose dependencies hold the string X, with
\* their count; a rescan that adds one module depending on X grows the result
\* by one, a rescan that removes it shrinks the result by one.
C8_FindDependents ==
    [][/\ call'.op = "find_dependents" =>
            /\ result'.success
            /\ result'.dependents = Dependents(registry'.modules, call'.arg)
            /\ result'.count = Len(result'.dependents)
       /\ (call'.op = "refresh_registry" /\ registry.created) =>
            \A x \in Names : \A m \in DirPool :
              (x \in set(m.dependencies)) =>
                /\ InsertedOne(registry.modules, registry'.modules, m) =>
                     find_dependents_result(registry', x).count
                       = find_dependents_result(registry, x).count + 1
                /\ InsertedOne(registry'.modules, registry.modules, m) =>
                     find_dependents_result(registry', x).count + 1
                       = find_dependents_result(registry, x).count]_vars

\* a name that is no module of the catalog and still has a dependent
C8_Witness ==
    /\ call.op = "find_dependents"
    /\ call.arg = "Ghost"
    /\ "Ghost" \notin CatalogNames
    /\ result.success
    /\ result.count = 1

----------------------------------------------------------------------------
(* get_unity_controller, the module-level accessor *)

\* a call without a project path
NoPath == "None"

\* Project paths a caller may pass
PathArgs == {NoPath, "projA", "projB"}

\* a freshly constructed UnityController: UnityController.__init__
UnityController(unity_project_path) ==
    [_unity_project_path |-> unity_project_path, _registry |-> NoRegistry, managers |-> 0]

\* mutant: the accessor is a true singleton and ignores a later path
needs_new_controller_once(inst, unity_project_path) == inst = 0

\* get_unity_controller, `if _controller_instance is None or unity_project_path is not None`
needs_new_controller(inst, unity_project_path) ==
    inst = 0 \/ unity_project_path # NoPath

get_unity_controller(unity_project_path) ==
    /\ Len(returned) < MaxCalls
    /\ LET fresh == needs_new_controller(instance, unity_project_path)
           id == IF fresh THEN Len(objects) + 1 ELSE instance
       IN  /\ objects' = IF fresh THEN Append(objects, UnityController(unity_project_path))
                         ELSE objects
           /\ instance' = id
           /\ returned' = Append(returned, [path |-> unity_project_path, id |-> id])
    /\ UNCHANGED <<tree, now, persisted, registry, call, result, locals, callerVars>>

\* the controllers some caller holds a reference to
Held == {returned[i].id : i \in 1..Len(returned)}

\* A caller runs get_registry_status on a controller it was handed.
controller_operation(id) ==
    /\ id \in Held
    /\ objects[id].managers < MaxCalls
    /\ LET c == objects[id]
           reg == _get_registry(c._registry, persisted)
       IN  /\ objects' = [objects EXCEPT ![id] =
                  [c EXCEPT !._registry = reg,
                            !.managers = IF creates_manager(c._registry) THEN @ + 1 ELSE @]]
           /\ result' = get_registry_status_result(reg)
    /\ UNCHANGED <<tree, now, persisted, registry, call, locals, instance, returned, callerVars>>

InitSingleton ==
    /\ tree = {}
    /\ now = 1
    /\ persisted \in EarlierFiles
    /\ registry = NoRegistry
    /\ call = Idle
    /\ result = NoResult
    /\ locals = NoLocals
    /\ instance = 0
    /\ objects = << >>
    /\ returned = << >>
    /\ pc = [c \in Callers |-> "idle"]
    /\ frame = [c \in Callers |-> NoFrame]

NextSingleton ==
    \/ \E unity_project_path \in PathArgs : get_unity_controller(unity_project_path)
    \/ \E id \in 1..MaxCalls : controller_operation(id)

SpecSingleton == InitSingleton /\ [][NextSingleton]_vars

\* every controller builds its registry manager on first use and never again
ManagerBuiltOnce ==
    \A id \in 1..Len(objects) :
        /\ objects[id].managers <= 1
        /\ objects[id]._registry.created <=> objects[id].managers = 1

----------------------------------------------------------------------------
(* refresh_registry reached by several callers at once: the controller     *)
(* takes no lock, so the callers' statements interleave                    *)

\* registry = self._get_registry(); old_module_names = {m.name for m in registry.modules}
refresh_read(c) ==
    /\ pc[c] = "idle"
    /\ LET reg == _get_registry(registry, persisted)
       IN  /\ registry' = reg
           /\ frame' = [frame EXCEPT ![c] =
                  [old_module_names |-> module_names(reg.modules), new_modules |-> << >>]]
    /\ pc' = [pc EXCEPT ![c] = "read"]
    /\ UNCHANGED <<tree, now, persisted, call, result, locals, accessorVars>>

\* new_modules = registry.scan_modules()
refresh_scan(c) ==
    /\ pc[c] = "read"
    /\ now < MaxClock
    /\ now' = now + 1
    /\ registry' = scan_modules(registry, tree, now + 1)
    /\ frame' = [frame EXCEPT ![c].new_modules = ScanTree(tree)]
    /\ pc' = [pc EXCEPT ![c] = "scanned"]
    /\ UNCHANGED <<tree, persisted, call, result, locals, accessorVars>>

\* the diff, save_registry and the returned dict
refresh_save(c, save_raises) ==
    /\ pc[c] = "scanned"
    /\ LET old == frame[c].old_module_names
           new == module_names(frame[c].new_modules)
           l == [old_module_names |-> old,
                 new_modules |-> frame[c].new_modules,
                 new_module_names |-> new,
                 added |-> added(old, new),
                 removed |-> removed(old, new),
                 unchanged |-> unchanged(old, new)]
       IN  /\ locals' = l
           /\ persisted' = IF save_raises THEN persisted ELSE save_registry(registry)
           /\ result' = IF save_raises THEN refresh_failure ELSE refresh_success(l, registry)
    /\ pc' = [pc EXCEPT ![c] = "idle"]
    /\ frame' = [frame EXCEPT ![c] = NoFrame]
    /\ UNCHANGED <<tree, now, registry, call, accessorVars>>

\* a query served while other callers may be inside refresh_registry
concurrent_find_dependents(c, name) ==
    /\ pc[c] = "idle"
    /\ \E other \in Callers : pc[other] # "idle"
    /\ result' = find_dependents_result(registry, name)
    /\ UNCHANGED <<tree, now, persisted, registry, call, locals, accessorVars, callerVars>>

\* The directories that come and go while callers overlap
ConcurrentDirs == {d \in DirPool : d.type \in {"core", "manager"}}

InitConcurrent ==
    /\ tree \in SUBSET ConcurrentDirs
    /\ now = 1
    /\ persisted \in EarlierFiles
    /\ registry = NoRegistry
    /\ call = Idle
    /\ result = NoResult
    /\ locals = NoLocals
    /\ instance = 0
    /\ objects = << >>
    /\ returned = << >>
    /\ pc = [c \in Callers |-> "idle"]
    /\ frame = [c \in Callers |-> NoFrame]

NextConcurrent ==
    \/ \E c \in Callers : refresh_read(c)
    \/ \E c \in Callers : refresh_scan(c)
    \/ \E c \in Callers : \E save_raises \in BOOLEAN : refresh_save(c, save_raises)
    \/ \E c \in Callers : \E name \in Names : concurrent_find_dependents(c, name)
    \/ \E d \in ConcurrentDirs : ChangeTree(d)

SpecConcurrent == InitConcurrent /\ [][NextConcurrent]_vars

\* C9: refresh_registry excludes every other refresh for its whole
\* scan-replace-persist sequence: the before-set a refresh has read is still
\* the catalog's name set when that refresh scans, so no refresh computes its
\* diff from a before-set that another refresh has already replaced.
C9_RefreshIsExclusive ==
    \A c \in Callers :
        pc[c] = "read" => frame[c].old_module_names = module_names(registry.modules)

----------------------------------------------------------------------------
(* The counts of a refresh *)

\* C11: in every successful refresh_registry result the counts agree with the
\* catalog: total = added + unchanged, added and removed are the lengths of
\* added_modules and removed_modules, and total is the number of distinct
\* module names in the catalog after the refresh, also when the scan finds
\* one name under two category directories.
C11_CountsConsistent ==
    (call.op = "refresh_registry" /\ result.success) =>
        /\ result.summary.total = result.summary.added + result.summary.unchanged
        /\ result.summary.added = Len(result.added_modules)
        /\ result.summary.removed = Len(result.removed_modules)
        /\ result.summary.total = Cardinality(module_names(registry.modules))

====
